---------------------------- MODULE Spec2Model ----------------------------
(***************************************************************************)
(* Model of codewandler/audio-go: the bridges between a real-time audio    *)
(* callback and blocking Read/Write.                                       *)
(*                                                                         *)
(*   AudioIO          (audio.go)      playCh + chanStreamer, readBuf+Cond   *)
(*   PortAudioDevice  (channel based) inputData / outputData channels      *)
(*   PortAudioDevice  (ring buffer)   micBuffer / playbackBuffer           *)
(*                                                                         *)
(* The playback and the capture side of AudioIO share no state, so each    *)
(* has its own specification (SpecPlay, SpecCapture); each device has one  *)
(* (SpecChan, SpecRing).                                                   *)
(*                                                                         *)
(* A float sample is the pair <<numerator, denominator>>.                  *)
(***************************************************************************)
EXTENDS Integers, Sequences, FiniteSets, TLC

\* ------------------------------------------------------------------ bounds

\* capacity of playCh, in frames (the code: PlaySampleRate*5)
PlayCap == 2

\* frames per hardware period: len(buf) of Stream, len(output) of processAudio
Period == 2

\* number of AudioIO.Write calls of the writer
MaxWrites == 1

\* number of goroutines calling AudioIO.Read
NReaders == 2

\* successful mic.Stream pulls of captureLoop before the microphone stops
MaxPulls == 2

\* capacity of inputData and outputData, in chunks (the code: 10)
ChanCap == 1

\* number of PortAudioDevice.Write calls of the writer
MaxDevWrites == 2

\* number of goroutines calling PortAudioDevice.Close
NClosers == 2

\* capacity of micBuffer and playbackBuffer, in bytes (the code:
\* sampleRate * 2 * 0.1)
RingCap == 4

\* number of Write calls on the ring-buffer device
MaxRingWrites == 2

\* number of Close calls on the ring-buffer device
MaxCloses == 2

\* the capacity a.readBuf is made with, in bytes (the code: 160, against
\* periods of 1024 frames)
ReadBufCap == 2

\* 16-bit mono PCM
bytesPerSample == 2

\* the byte slices the writer passes to AudioIO.Write
PlayInputs ==
    { <<7>>, <<1, 0>>, <<2, 0, 0, 128>>, <<3, 0, 4, 0, 5, 0>>,
      <<6, 0, 7, 0, 8, 0, 9, 0>> }

\* what mic.Stream leaves in frames[:n]: stereo float frames
MicInputs ==
    { <<>>,
      << <<<<1, 2>>, <<0, 1>>>> >>,
      << <<<<3, 2>>, <<0, 1>>>>, <<<<-1, 1>>, <<1, 1>>>> >> }

\* len(p) of the callers of Read
ReadLens == {1, 2, 3}

\* len(p) of the callers of PortAudioDevice.Read
DevReadLens == {2, 5}

\* the byte slices the writer passes to PortAudioDevice.Write
DevInputs ==
    { <<9>>, <<1, 0>>, <<4, 0, 5, 0, 6, 0>> }

\* the input the driver hands to processAudio: one period of float32 samples
CbInputs ==
    { [i \in 1..Period |-> <<1, 2>>] }

\* the float samples handed to the float-to-PCM16 conversions, as exact
\* fractions <<numerator, denominator>>: tenths and sixteenths from -2 to 2
ConvFloats ==
    { <<k, 10>> : k \in -20..20 } \cup { <<k, 16>> : k \in -32..32 }

\* the PCM16 samples handed to the PCM16-to-float conversions: two bytes,
\* low byte first
ConvSamples ==
    { <<lo, hi>> : lo \in {0, 1, 255}, hi \in {0, 1, 127, 128, 255} }

\* ---------------------------------------------------------------- helpers

Min(a, b) == IF a < b THEN a ELSE b

\* s without its first n elements: s[n:]
Drop(s, n) == SubSeq(s, n + 1, Len(s))

\* the first n elements of s: s[:n]
Take(s, n) == SubSeq(s, 1, n)

\* int16(binary.LittleEndian.Uint16(b[i:])), i counted from 0
LEInt16(b, i) ==
    LET u == b[i + 1] + 256 * b[i + 2]
    IN  IF u >= 32768 THEN u - 65536 ELSE u

\* float64(v) / 32768.0
PCM16ToFloat(v) == <<v, 32768>>

\* [2]float64{f, f}
Stereo(f) == <<f, f>>

\* [2]float64{}
Silence == <<<<0, 32768>>, <<0, 32768>>>>

\* a / b rounded toward zero, as Go converts a float to an integer (b > 0)
TruncDiv(a, b) == IF a >= 0 THEN a \div b ELSE -((-a) \div b)

\* clamp(f)
clamp(f) ==
    IF f[1] > f[2] THEN <<1, 1>>
    ELSE IF f[1] < -f[2] THEN <<-1, 1>>
    ELSE f

\* the two bytes of uint16(m), high byte first
PutUint16BE(m) ==
    LET u == m % 65536
    IN  <<u \div 256, u % 256>>

\* binary.LittleEndian.PutUint16(b, uint16(m))
PutUint16(m) ==
    LET u == m % 65536
    IN  <<u % 256, u \div 256>>

\* stereoSamplesToPCM16Mono(s): int16(clamp(v[0]) * 32767) of each frame
RECURSIVE stereoSamplesToPCM16Mono(_)
stereoSamplesToPCM16Mono(s) ==
    IF s = <<>> THEN <<>>
    ELSE LET c == clamp(Head(s)[1])
             m == TruncDiv(c[1] * 32767, c[2])
         IN  PutUint16(m) \o stereoSamplesToPCM16Mono(Tail(s))

\* int16(x) of an integer x outside the int16 range: the low 16 bits
WrapInt16(x) == ((x + 32768) % 65536) - 32768

\* channel device: int16(sample * 32767), byte(val), byte(val >> 8);
\* the sample is not clamped
RECURSIVE floatsToPCM16(_)
floatsToPCM16(in) ==
    IF in = <<>> THEN <<>>
    ELSE LET val == WrapInt16(TruncDiv(Head(in)[1] * 32767, Head(in)[2]))
         IN  PutUint16(val) \o floatsToPCM16(Tail(in))

\* devices: float32(val) / 32767.0
DevPCM16ToFloat(v) == <<v, 32767>>

\* the number of samples processAudio of the channel device copies from a
\* chunk: i < len(output) && i*2+1 < len(pcm16Data)
ChunkSamples(chunk) == Min(Period, Len(chunk) \div 2)

\* the samples of a chunk, decoded as processAudio does
RECURSIVE DecodeChunk(_)
DecodeChunk(chunk) ==
    IF Len(chunk) < 2 THEN <<>>
    ELSE <<DevPCM16ToFloat(LEInt16(chunk, 0))>> \o DecodeChunk(Drop(chunk, 2))

\* the concatenation of the decoded samples of a sequence of chunks
RECURSIVE DecodeAll(_)
DecodeAll(chunks) ==
    IF chunks = <<>> THEN <<>>
    ELSE DecodeChunk(Head(chunks)) \o DecodeAll(Tail(chunks))

\* ring-buffer device: the sample is clamped, then int16(sample * 32767),
\* binary.Write little endian
RECURSIVE clampedFloatsToPCM16(_)
clampedFloatsToPCM16(in) ==
    IF in = <<>> THEN <<>>
    ELSE LET c == clamp(Head(in))
         IN  PutUint16(TruncDiv(c[1] * 32767, c[2]))
                 \o clampedFloatsToPCM16(Tail(in))

\* n zero bytes
Zeros(n) == [i \in 1..n |-> 0]

\* s is a subsequence of t: s embeds in t in order, each element of t used
\* at most once
RECURSIVE IsSubseq(_, _)
IsSubseq(s, t) ==
    IF s = <<>> THEN TRUE
    ELSE IF t = <<>> THEN FALSE
    ELSE IF Head(s) = Head(t) THEN IsSubseq(Tail(s), Tail(t))
    ELSE IsSubseq(s, Tail(t))

\* ------------------------------------------------------------------ state

VARIABLES
    \* AudioIO, playback side
    playCh,      \* a.playCh: the buffered channel, oldest frame first
    wPc,         \* AudioIO.Write: "idle" | "loop"
    wB,          \* its argument b
    wI,          \* its loop index i
    wRet,        \* what the last Write returned: [len, n, err]
    nWrites,     \* Write calls so far
    sPc,         \* chanStreamer.Stream: "idle" | "run"
    sI,          \* its loop index i (from 1)
    sBuf,        \* the buf the speaker hands to Stream
    sFresh,      \* which elements of buf this invocation has assigned
    fPc,         \* chanStreamer.Flush: "idle" | "run"
    written,     \* history: frames sent on playCh, in order
    delivered,   \* history: frames Stream received from playCh, in order
    flushed,     \* history: frames Flush discarded
    fMark,       \* history: how many frames had been sent and delivered when
                 \* Flush last returned
    fDone,       \* history: Flush has returned and Stream was not called since
    sFirst,      \* history: this Stream invocation is the first one called
                 \* after a Flush returned
    sGot,        \* history: frames that invocation has received from playCh
    \* AudioIO, capture side
    readBuf,     \* a.readBuf
    readMu,      \* a.readMu: 0 free, -1 held by captureLoop, r held by reader r
    waiters,     \* the goroutines parked in a.readCond.Wait()
    rPc,         \* Read of reader r: "idle" | "lock" | "body" | "wait" | "woken"
    rLen,        \* len(p) of reader r
    rRet,        \* what reader r's last Read returned: [n, err]
    capPc,       \* captureLoop: "stream" | "lock" | "body" | "done"
    mono,        \* captureLoop's mono
    pulls,       \* successful mic.Stream calls so far
    \* PortAudioDevice, channel based
    inputData,   \* d.inputData: chunks, oldest first
    outputData,  \* d.outputData: chunks, oldest first
    chansOpen,   \* neither channel has been closed
    closed,      \* d.closed
    muReaders,   \* d.mu: who holds it for reading, among "R" and "W"
    muWriter,    \* d.mu: the closer that holds it for writing, or 0
    chStream,    \* d.stream: "started" | "stopped" | "closed"
    chStops,     \* calls of d.stream.Stop()
    cbPc,        \* processAudio: "idle" | "in" | "out"
    cbIn,        \* its input
    output,      \* its output
    outFresh,    \* which elements of output this invocation has assigned
    drPc,        \* Read: "idle" | "rlock" | "select"
    drLen,       \* len(p)
    drRet,       \* what the last Read returned: [n, err, atClose], and
                 \* took: the bytes it removed from inputData
    drAtClose,   \* Close was called while this Read was waiting in select
    dwPc,        \* Write: "idle" | "rlock" | "body"
    dwP,         \* its argument p
    dwRet,       \* what the last Write returned: [len, n, err, enq]
    nDevWrites,  \* Write calls so far
    clPc,        \* Close of closer c: "idle" | "lock" | "check" | "stop" |
                 \* "sclose" | "chans"
    clRet,       \* what closer c's last Close returned
    dSent,       \* history: chunks sent on outputData
    dPlayed,     \* history: samples processAudio copied from chunks to output
    \* PortAudioDevice, ring buffer
    micBuffer,       \* d.micBuffer: bytes, oldest first
    playbackBuffer,  \* d.playbackBuffer: bytes, oldest first
    micClosed,       \* CloseWriter was called on d.micBuffer
    playClosed,      \* CloseWriter was called on d.playbackBuffer
    rbStream,        \* d.stream: "started" | "stopped" | "closed"
    rbStops,         \* calls of d.stream.Stop()
    rbCloses,        \* calls of d.stream.Close()
    pcbPc,           \* processAudio: "idle" | "micWrite" | "out"
    pcbRest,         \* what its micBuffer.Write has still to write
    outputPCM16Buf,  \* d.outputPCM16Buf
    rbOutput,        \* its output
    rbOutFresh,      \* which elements of output this invocation has assigned
    qrPc,            \* Read: "idle" | "read"
    qrLen,           \* len(p)
    qrRet,           \* what the last Read returned: [n, err]
    qwPc,            \* Write: "idle" | "write"
    qwP,             \* its argument p
    qwRest,          \* what it has still to write
    qwRet,           \* what the last Write returned: [len, n, err]
    nRingWrites,     \* Write calls so far
    qcPc,            \* Close of closer c: "idle" | "stop" | "sclose" |
                     \* "mic" | "play"
    qcRet,           \* what closer c's last Close returned
    nCloses,         \* Close calls so far
    \* the sample conversions, applied on their own
    cvOp,        \* the conversion applied last, "none" before the first
    cvFloat,     \* the float sample it was given (encoders, round trip)
    cvBytes,     \* the PCM16 sample: what it was given or what it encoded
    cvOut        \* the float sample it decoded (decoders, round trip)

playVars == <<playCh, wPc, wB, wI, wRet, nWrites, sPc, sI, sBuf, sFresh,
              fPc, written, delivered, flushed, fMark, fDone, sFirst, sGot>>

capVars == <<readBuf, readMu, waiters, rPc, rLen, rRet, capPc, mono, pulls>>

chanVars == <<inputData, outputData, chansOpen, closed, muReaders, muWriter,
              chStream, chStops, cbPc, cbIn, output, outFresh, drPc, drLen,
              drRet, drAtClose, dwPc, dwP, dwRet, nDevWrites, clPc, clRet,
              dSent, dPlayed>>

ringVars == <<micBuffer, playbackBuffer, micClosed, playClosed, rbStream,
              rbStops, rbCloses, pcbPc, pcbRest, outputPCM16Buf, rbOutput,
              rbOutFresh, qrPc, qrLen, qrRet, qwPc, qwP, qwRest, qwRet,
              nRingWrites, qcPc, qcRet, nCloses>>

convVars == <<cvOp, cvFloat, cvBytes, cvOut>>

vars == <<playVars, capVars, chanVars, ringVars, convVars>>

Closers == 1..NClosers

DevSilence == <<0, 32767>>

Readers == 1..NReaders

InitPlay ==
    /\ playCh = <<>>
    /\ wPc = "idle"
    /\ wB = <<>>
    /\ wI = 0
    /\ wRet = [len |-> 0, n |-> 0, err |-> "none"]
    /\ nWrites = 0
    /\ sPc = "idle"
    /\ sI = 1
    /\ sBuf = [i \in 1..Period |-> Silence]
    /\ sFresh = [i \in 1..Period |-> TRUE]
    /\ fPc = "idle"
    /\ written = <<>>
    /\ delivered = <<>>
    /\ flushed = <<>>
    /\ fMark = [sent |-> 0, delivered |-> 0]
    /\ fDone = FALSE
    /\ sFirst = FALSE
    /\ sGot = 0

InitCapture ==
    /\ readBuf = <<>>
    /\ readMu = 0
    /\ waiters = {}
    /\ rPc = [r \in Readers |-> "idle"]
    /\ rLen = [r \in Readers |-> 0]
    /\ rRet = [r \in Readers |-> [n |-> 0, err |-> "none"]]
    /\ capPc = "stream"
    /\ mono = <<>>
    /\ pulls = 0

InitChan ==
    /\ inputData = <<>>
    /\ outputData = <<>>
    /\ chansOpen = TRUE
    /\ closed = FALSE
    /\ muReaders = {}
    /\ muWriter = 0
    /\ chStream = "started"
    /\ chStops = 0
    /\ cbPc = "idle"
    /\ cbIn = <<>>
    /\ output = [i \in 1..Period |-> DevSilence]
    /\ outFresh = [i \in 1..Period |-> TRUE]
    /\ drPc = "idle"
    /\ drLen = 0
    /\ drRet = [n |-> 0, err |-> "none", atClose |-> FALSE, took |-> 0]
    /\ drAtClose = FALSE
    /\ dwPc = "idle"
    /\ dwP = <<>>
    /\ dwRet = [len |-> 0, n |-> 0, err |-> "none", enq |-> FALSE]
    /\ nDevWrites = 0
    /\ clPc = [c \in Closers |-> "idle"]
    /\ clRet = [c \in Closers |-> "none"]
    /\ dSent = <<>>
    /\ dPlayed = <<>>

InitRing ==
    /\ micBuffer = <<>>
    /\ playbackBuffer = <<>>
    /\ micClosed = FALSE
    /\ playClosed = FALSE
    /\ rbStream = "started"
    /\ rbStops = 0
    /\ rbCloses = 0
    /\ pcbPc = "idle"
    /\ pcbRest = <<>>
    /\ outputPCM16Buf = Zeros(Period * 2)
    /\ rbOutput = [i \in 1..Period |-> DevSilence]
    /\ rbOutFresh = [i \in 1..Period |-> TRUE]
    /\ qrPc = "idle"
    /\ qrLen = 0
    /\ qrRet = [n |-> 0, err |-> "none"]
    /\ qwPc = "idle"
    /\ qwP = <<>>
    /\ qwRest = <<>>
    /\ qwRet = [len |-> 0, n |-> 0, err |-> "none"]
    /\ nRingWrites = 0
    /\ qcPc = [c \in Closers |-> "idle"]
    /\ qcRet = [c \in Closers |-> "none"]
    /\ nCloses = 0

\* --------------------------------------------- AudioIO, playback side

\* a receive from a buffered channel: the oldest element and what is left
ChanRecvLast(ch) == [val |-> ch[Len(ch)], rest |-> Take(ch, Len(ch) - 1)]
ChanRecv(ch) == [val |-> Head(ch), rest |-> Tail(ch)]

\* AudioIO.Write is called with b; an odd length is rejected at once
WriteCall ==
    /\ wPc = "idle"
    /\ nWrites < MaxWrites
    /\ \E b \in PlayInputs :
        /\ nWrites' = nWrites + 1
        /\ wB' = b
        /\ IF Len(b) % bytesPerSample # 0
           THEN /\ wRet' = [len |-> Len(b), n |-> 0, err |-> "malformed"]
                /\ UNCHANGED <<wPc, wI>>
           ELSE /\ wPc' = "loop"
                /\ wI' = 0
                /\ UNCHANGED wRet
    /\ UNCHANGED <<playCh, sPc, sI, sBuf, sFresh, fPc, written, delivered,
                   flushed>>
    /\ UNCHANGED <<fMark, fDone, sFirst, sGot>>
    /\ UNCHANGED <<capVars, chanVars, ringVars, convVars>>

\* one iteration of the loop: a.playCh <- [2]float64{f, f}; the send waits
\* while the channel is full
WriteSend ==
    /\ wPc = "loop"
    /\ wI < Len(wB)
    /\ Len(playCh) < PlayCap
    /\ LET frame == Stereo(PCM16ToFloat(LEInt16(wB, wI)))
       IN  /\ playCh' = Append(playCh, frame)
           /\ written' = Append(written, frame)
    /\ wI' = wI + bytesPerSample
    /\ UNCHANGED <<wPc, wB, wRet, nWrites, sPc, sI, sBuf, sFresh, fPc,
                   delivered, flushed>>
    /\ UNCHANGED <<fMark, fDone, sFirst, sGot>>
    /\ UNCHANGED <<capVars, chanVars, ringVars, convVars>>

\* return len(b), nil
WriteReturn ==
    /\ wPc = "loop"
    /\ wI >= Len(wB)
    /\ wPc' = "idle"
    /\ wRet' = [len |-> Len(wB), n |-> Len(wB), err |-> "nil"]
    /\ UNCHANGED <<playCh, wB, wI, nWrites, sPc, sI, sBuf, sFresh, fPc,
                   written, delivered, flushed>>
    /\ UNCHANGED <<fMark, fDone, sFirst, sGot>>
    /\ UNCHANGED <<capVars, chanVars, ringVars, convVars>>

\* the speaker invokes Stream(buf); buf still holds the last period
StreamCall ==
    /\ sPc = "idle"
    /\ sPc' = "run"
    /\ sI' = 1
    /\ sFresh' = [i \in 1..Period |-> FALSE]
    /\ sFirst' = fDone
    /\ fDone' = FALSE
    /\ sGot' = 0
    /\ UNCHANGED <<playCh, wPc, wB, wI, wRet, nWrites, sBuf, fPc, written,
                   delivered, flushed, fMark>>
    /\ UNCHANGED <<capVars, chanVars, ringVars, convVars>>

\* one iteration of Stream's loop: select { case smp := <-c.ch; default }
StreamStep ==
    /\ sPc = "run"
    /\ sI <= Period
    /\ IF playCh # <<>>
       THEN LET r == ChanRecv(playCh)
            IN  /\ sBuf' = [sBuf EXCEPT ![sI] = r.val]
                /\ playCh' = r.rest
                /\ delivered' = Append(delivered, r.val)
                /\ sGot' = IF sFirst THEN sGot + 1 ELSE sGot
       ELSE /\ sBuf' = [sBuf EXCEPT ![sI] = Silence]
            /\ UNCHANGED <<playCh, delivered, sGot>>
    /\ sFresh' = [sFresh EXCEPT ![sI] = TRUE]
    /\ sI' = sI + 1
    /\ UNCHANGED <<wPc, wB, wI, wRet, nWrites, sPc, fPc, written, flushed,
                   fMark, fDone, sFirst>>
    /\ UNCHANGED <<capVars, chanVars, ringVars, convVars>>

\* return len(buf), true
StreamReturn ==
    /\ sPc = "run"
    /\ sI > Period
    /\ sPc' = "idle"
    /\ UNCHANGED <<playCh, wPc, wB, wI, wRet, nWrites, sI, sBuf, sFresh,
                   fPc, written, delivered, flushed>>
    /\ UNCHANGED <<fMark, fDone, sFirst, sGot>>
    /\ UNCHANGED <<capVars, chanVars, ringVars, convVars>>

\* AudioIO.ClearOutputBuffer: a.playStreamer.Flush()
ClearOutputBuffer ==
    /\ fPc = "idle"
    /\ fPc' = "run"
    /\ UNCHANGED <<playCh, wPc, wB, wI, wRet, nWrites, sPc, sI, sBuf,
                   sFresh, written, delivered, flushed>>
    /\ UNCHANGED <<fMark, fDone, sFirst, sGot>>
    /\ UNCHANGED <<capVars, chanVars, ringVars, convVars>>

\* a Flush that receives at most one frame and returns
FlushOnce ==
    /\ fPc = "run"
    /\ IF playCh # <<>>
       THEN LET r == ChanRecv(playCh)
            IN  /\ playCh' = r.rest
                /\ flushed' = Append(flushed, r.val)
       ELSE UNCHANGED <<playCh, flushed>>
    /\ fPc' = "idle"
    /\ fMark' = [sent |-> Len(written), delivered |-> Len(delivered)]
    /\ fDone' = TRUE
    /\ UNCHANGED <<wPc, wB, wI, wRet, nWrites, sPc, sI, sBuf, sFresh,
                   written, delivered, sFirst, sGot>>
    /\ UNCHANGED <<capVars, chanVars, ringVars, convVars>>

\* one iteration of Flush's loop: select { case <-c.ch; default: return }
FlushStep ==
    /\ fPc = "run"
    /\ IF playCh # <<>>
       THEN LET r == ChanRecv(playCh)
            IN  /\ playCh' = r.rest
                /\ flushed' = Append(flushed, r.val)
                /\ UNCHANGED <<fPc, fMark, fDone>>
       ELSE /\ fPc' = "idle"
            /\ fMark' = [sent |-> Len(written), delivered |-> Len(delivered)]
            /\ fDone' = TRUE
            /\ UNCHANGED <<playCh, flushed>>
    /\ UNCHANGED <<wPc, wB, wI, wRet, nWrites, sPc, sI, sBuf, sFresh,
                   written, delivered, sFirst, sGot>>
    /\ UNCHANGED <<capVars, chanVars, ringVars, convVars>>

NextPlay ==
    \/ WriteCall
    \/ WriteSend
    \/ WriteReturn
    \/ StreamCall
    \/ StreamStep
    \/ StreamReturn
    \/ ClearOutputBuffer
    \/ FlushStep

\* --------------------------------------------- AudioIO, capture side

\* Read(p) is called: a.readMu.Lock() is next
ReadCall(r) ==
    /\ rPc[r] = "idle"
    /\ \E n \in ReadLens : rLen' = [rLen EXCEPT ![r] = n]
    /\ rPc' = [rPc EXCEPT ![r] = "lock"]
    /\ UNCHANGED <<readBuf, readMu, waiters, rRet, capPc, mono, pulls>>
    /\ UNCHANGED <<playVars, chanVars, ringVars, convVars>>

\* a.readMu.Lock() succeeds, on entry or when Wait() takes the lock again
ReadLock(r) ==
    /\ rPc[r] \in {"lock", "woken"}
    /\ readMu = 0
    /\ readMu' = r
    /\ rPc' = [rPc EXCEPT ![r] = "body"]
    /\ UNCHANGED <<readBuf, waiters, rLen, rRet, capPc, mono, pulls>>
    /\ UNCHANGED <<playVars, chanVars, ringVars, convVars>>

\* with the lock held: for len(a.readBuf) == 0 { a.readCond.Wait() }, then
\* n := copy(p, a.readBuf); a.readBuf = a.readBuf[n:]; return n, nil
ReadBody(r) ==
    /\ rPc[r] = "body"
    /\ readMu = r
    /\ readMu' = 0
    /\ IF Len(readBuf) = 0
       THEN /\ waiters' = waiters \cup {r}
            /\ rPc' = [rPc EXCEPT ![r] = "wait"]
            /\ UNCHANGED <<readBuf, rRet>>
       ELSE LET n == Min(rLen[r], Len(readBuf))
            IN  /\ readBuf' = Drop(readBuf, n)
                /\ rRet' = [rRet EXCEPT ![r] = [n |-> n, err |-> "nil"]]
                /\ rPc' = [rPc EXCEPT ![r] = "idle"]
                /\ UNCHANGED waiters
    /\ UNCHANGED <<rLen, capPc, mono, pulls>>
    /\ UNCHANGED <<playVars, chanVars, ringVars, convVars>>

\* n, ok := a.mic.Stream(frames) with ok: mono := stereoSamplesToPCM16Mono
MicStream ==
    /\ capPc = "stream"
    /\ pulls < MaxPulls
    /\ \E s \in MicInputs : mono' = stereoSamplesToPCM16Mono(s)
    /\ pulls' = pulls + 1
    /\ capPc' = "lock"
    /\ UNCHANGED <<readBuf, readMu, waiters, rPc, rLen, rRet>>
    /\ UNCHANGED <<playVars, chanVars, ringVars, convVars>>

\* n, ok := a.mic.Stream(frames) with !ok: captureLoop returns
MicStop ==
    /\ capPc = "stream"
    /\ capPc' = "done"
    /\ UNCHANGED <<readBuf, readMu, waiters, rPc, rLen, rRet, mono, pulls>>
    /\ UNCHANGED <<playVars, chanVars, ringVars, convVars>>

\* a.readMu.Lock() of captureLoop
CaptureLock ==
    /\ capPc = "lock"
    /\ readMu = 0
    /\ readMu' = -1
    /\ capPc' = "body"
    /\ UNCHANGED <<readBuf, waiters, rPc, rLen, rRet, mono, pulls>>
    /\ UNCHANGED <<playVars, chanVars, ringVars, convVars>>

\* a.readCond.Signal(): one parked goroutine, if any, is made runnable
Signal ==
    IF waiters = {}
    THEN UNCHANGED <<waiters, rPc>>
    ELSE \E r \in waiters :
            /\ waiters' = waiters \ {r}
            /\ rPc' = [rPc EXCEPT ![r] = "woken"]

\* with the lock held: append, Signal, Unlock
CaptureBody ==
    /\ capPc = "body"
    /\ readMu = -1
    /\ readBuf' = readBuf \o mono
    /\ Signal
    /\ readMu' = 0
    /\ capPc' = "stream"
    /\ UNCHANGED <<rLen, rRet, mono, pulls>>
    /\ UNCHANGED <<playVars, chanVars, ringVars, convVars>>

NextCapture ==
    \/ \E r \in Readers : ReadCall(r)
    \/ \E r \in Readers : ReadLock(r)
    \/ \E r \in Readers : ReadBody(r)
    \/ MicStream
    \/ MicStop
    \/ CaptureLock
    \/ CaptureBody

InitConv ==
    /\ cvOp = "none"
    /\ cvFloat = <<0, 1>>
    /\ cvBytes = <<0, 0>>
    /\ cvOut = <<0, 1>>

Init == InitPlay /\ InitCapture /\ InitChan /\ InitRing /\ InitConv

SpecCapture == Init /\ [][NextCapture]_vars

SpecPlay == Init /\ [][NextPlay]_vars

\* ------------------------------------- PortAudioDevice, channel based

\* d.mu.RLock() can succeed: no closer holds d.mu or waits for it
CanRLock == muWriter = 0 /\ \A c \in Closers : clPc[c] # "lock"

\* the driver invokes processAudio(input, output) while the stream runs;
\* output still holds the last period. d.closed is read without d.mu, so
\* once Close has set it the callback may see either value.
CbCall ==
    /\ chStream = "started"
    /\ cbPc = "idle"
    /\ outFresh' = [i \in 1..Period |-> FALSE]
    /\ \E in \in CbInputs, seen \in (IF closed THEN {TRUE, FALSE} ELSE {FALSE}) :
        IF seen
        THEN UNCHANGED <<cbPc, cbIn>>
        ELSE cbPc' = "in" /\ cbIn' = in
    /\ UNCHANGED <<inputData, outputData, chansOpen, closed, muReaders,
                   muWriter, chStream, chStops, output, drPc, drLen, drRet,
                   drAtClose, dwPc, dwP, dwRet, nDevWrites, clPc, clRet,
                   dSent, dPlayed>>
    /\ UNCHANGED <<playVars, capVars, ringVars, convVars>>

\* the input half: convert, then select { case d.inputData <- pcm16Data;
\* default }
CbInput ==
    /\ cbPc = "in"
    /\ IF Len(cbIn) > 0
       THEN IF ~chansOpen
            THEN cbPc' = "panic" /\ UNCHANGED inputData
            ELSE /\ cbPc' = "out"
                 /\ IF Len(inputData) < ChanCap
                    THEN inputData' = Append(inputData, floatsToPCM16(cbIn))
                    ELSE UNCHANGED inputData
       ELSE cbPc' = "out" /\ UNCHANGED inputData
    /\ UNCHANGED <<outputData, chansOpen, closed, muReaders, muWriter,
                   chStream, chStops, cbIn, output, outFresh, drPc, drLen,
                   drRet, drAtClose, dwPc, dwP, dwRet, nDevWrites, clPc,
                   clRet, dSent, dPlayed>>
    /\ UNCHANGED <<playVars, capVars, ringVars, convVars>>

\* the output half: select { case pcm16Data := <-d.outputData: copy the
\* samples that fit; default: silence }
CbOutput ==
    /\ cbPc = "out"
    /\ cbPc' = "idle"
    /\ IF outputData # <<>>
       THEN LET chunk == Head(outputData)
                k == ChunkSamples(chunk)
                smp == DecodeChunk(chunk)
            IN  /\ outputData' = Tail(outputData)
                /\ output' = [i \in 1..Period |->
                                IF i <= k THEN smp[i] ELSE output[i]]
                /\ outFresh' = [i \in 1..Period |-> i <= k]
                /\ dPlayed' = dPlayed \o Take(smp, k)
       ELSE IF ~chansOpen
       THEN UNCHANGED <<outputData, output, outFresh, dPlayed>>
       ELSE /\ output' = [i \in 1..Period |-> DevSilence]
            /\ outFresh' = [i \in 1..Period |-> TRUE]
            /\ UNCHANGED <<outputData, dPlayed>>
    /\ UNCHANGED <<inputData, chansOpen, closed, muReaders, muWriter,
                   chStream, chStops, cbIn, drPc, drLen, drRet, drAtClose,
                   dwPc, dwP, dwRet, nDevWrites, clPc, clRet, dSent>>
    /\ UNCHANGED <<playVars, capVars, ringVars, convVars>>

\* Read(p) is called: d.mu.RLock() is next
DevReadCall ==
    /\ drPc = "idle"
    /\ drPc' = "rlock"
    /\ \E n \in DevReadLens : drLen' = n
    /\ drAtClose' = FALSE
    /\ UNCHANGED <<inputData, outputData, chansOpen, closed, muReaders,
                   muWriter, chStream, chStops, cbPc, cbIn, output, outFresh,
                   drRet, dwPc, dwP, dwRet, nDevWrites, clPc, clRet, dSent,
                   dPlayed>>
    /\ UNCHANGED <<playVars, capVars, ringVars, convVars>>

\* d.mu.RLock(); if d.closed { return 0, io.EOF }
DevReadLock ==
    /\ drPc = "rlock"
    /\ CanRLock
    /\ IF closed
       THEN /\ drPc' = "idle"
            /\ drRet' = [n |-> 0, err |-> "EOF", atClose |-> drAtClose,
                         took |-> 0]
            /\ UNCHANGED muReaders
       ELSE /\ drPc' = "select"
            /\ muReaders' = muReaders \cup {"R"}
            /\ UNCHANGED drRet
    /\ UNCHANGED <<inputData, outputData, chansOpen, closed, muWriter,
                   chStream, chStops, cbPc, cbIn, output, outFresh, drLen,
                   drAtClose, dwPc, dwP, dwRet, nDevWrites, clPc, clRet,
                   dSent, dPlayed>>
    /\ UNCHANGED <<playVars, capVars, ringVars, convVars>>

\* case data := <-d.inputData: n = copy(p, data); return n, nil
DevReadRecv ==
    /\ drPc = "select"
    /\ inputData # <<>>
    /\ inputData' = Tail(inputData)
    /\ drRet' = [n |-> Min(drLen, Len(Head(inputData))), err |-> "nil",
                 atClose |-> drAtClose, took |-> Len(Head(inputData))]
    /\ muReaders' = muReaders \ {"R"}
    /\ drPc' = "idle"
    /\ UNCHANGED <<outputData, chansOpen, closed, muWriter, chStream,
                   chStops, cbPc, cbIn, output, outFresh, drLen, drAtClose,
                   dwPc, dwP, dwRet, nDevWrites, clPc, clRet, dSent, dPlayed>>
    /\ UNCHANGED <<playVars, capVars, ringVars, convVars>>

\* case <-time.After(100 * time.Millisecond): zero p; return len(p), nil
DevReadTimeout ==
    /\ drPc = "select"
    /\ inputData = <<>>
    /\ drRet' = [n |-> drLen, err |-> "nil", atClose |-> drAtClose,
                 took |-> 0]
    /\ muReaders' = muReaders \ {"R"}
    /\ drPc' = "idle"
    /\ UNCHANGED <<inputData, outputData, chansOpen, closed, muWriter,
                   chStream, chStops, cbPc, cbIn, output, outFresh, drLen,
                   drAtClose, dwPc, dwP, dwRet, nDevWrites, clPc, clRet,
                   dSent, dPlayed>>
    /\ UNCHANGED <<playVars, capVars, ringVars, convVars>>

\* Write(p) is called: d.mu.RLock() is next
DevWriteCall ==
    /\ dwPc = "idle"
    /\ nDevWrites < MaxDevWrites
    /\ nDevWrites' = nDevWrites + 1
    /\ \E p \in DevInputs : dwP' = p
    /\ dwPc' = "rlock"
    /\ UNCHANGED <<inputData, outputData, chansOpen, closed, muReaders,
                   muWriter, chStream, chStops, cbPc, cbIn, output, outFresh,
                   drPc, drLen, drRet, drAtClose, dwRet, clPc, clRet, dSent,
                   dPlayed>>
    /\ UNCHANGED <<playVars, capVars, ringVars, convVars>>

\* d.mu.RLock(); if d.closed { return 0, io.ErrClosedPipe }
DevWriteLock ==
    /\ dwPc = "rlock"
    /\ CanRLock
    /\ IF closed
       THEN /\ dwPc' = "idle"
            /\ dwRet' = [len |-> Len(dwP), n |-> 0, err |-> "ErrClosedPipe",
                         enq |-> FALSE]
            /\ UNCHANGED muReaders
       ELSE /\ dwPc' = "body"
            /\ muReaders' = muReaders \cup {"W"}
            /\ UNCHANGED dwRet
    /\ UNCHANGED <<inputData, outputData, chansOpen, closed, muWriter,
                   chStream, chStops, cbPc, cbIn, output, outFresh, drPc,
                   drLen, drRet, drAtClose, dwP, nDevWrites, clPc, clRet,
                   dSent, dPlayed>>
    /\ UNCHANGED <<playVars, capVars, ringVars, convVars>>

\* what Write's select does with p: sent when outputData has room,
\* dropped when it is full; len(p), nil is returned either way
DevWriteSelect(p) ==
    IF Len(outputData) < ChanCap
    THEN /\ outputData' = Append(outputData, p)
         /\ dSent' = Append(dSent, p)
         /\ dwRet' = [len |-> Len(p), n |-> Len(p), err |-> "nil",
                      enq |-> TRUE]
    ELSE /\ dwRet' = [len |-> Len(p), n |-> Len(p), err |-> "nil",
                      enq |-> FALSE]
         /\ UNCHANGED <<outputData, dSent>>

\* select { case d.outputData <- p; default }; return len(p), nil
DevWriteBody ==
    /\ dwPc = "body"
    /\ DevWriteSelect(dwP)
    /\ muReaders' = muReaders \ {"W"}
    /\ dwPc' = "idle"
    /\ UNCHANGED <<inputData, chansOpen, closed, muWriter, chStream, chStops,
                   cbPc, cbIn, output, outFresh, drPc, drLen, drRet,
                   drAtClose, dwP, nDevWrites, clPc, clRet, dPlayed>>
    /\ UNCHANGED <<playVars, capVars, ringVars, convVars>>

\* Close() is called: d.mu.Lock() is next
CloseCall(c) ==
    /\ clPc[c] = "idle"
    /\ clPc' = [clPc EXCEPT ![c] = "lock"]
    /\ drAtClose' = (drAtClose \/ drPc = "select")
    /\ UNCHANGED <<inputData, outputData, chansOpen, closed, muReaders,
                   muWriter, chStream, chStops, cbPc, cbIn, output, outFresh,
                   drPc, drLen, drRet, dwPc, dwP, dwRet, nDevWrites, clRet,
                   dSent, dPlayed>>
    /\ UNCHANGED <<playVars, capVars, ringVars, convVars>>

\* d.mu.Lock() succeeds once no reader and no writer holds d.mu
CloseLock(c) ==
    /\ clPc[c] = "lock"
    /\ muReaders = {}
    /\ muWriter = 0
    /\ muWriter' = c
    /\ clPc' = [clPc EXCEPT ![c] = "check"]
    /\ UNCHANGED <<inputData, outputData, chansOpen, closed, muReaders,
                   chStream, chStops, cbPc, cbIn, output, outFresh, drPc,
                   drLen, drRet, drAtClose, dwPc, dwP, dwRet, nDevWrites,
                   clRet, dSent, dPlayed>>
    /\ UNCHANGED <<playVars, capVars, ringVars, convVars>>

\* if d.closed { return nil }; d.closed = true
CloseCheck(c) ==
    /\ clPc[c] = "check"
    /\ IF closed
       THEN /\ muWriter' = 0
            /\ clPc' = [clPc EXCEPT ![c] = "idle"]
            /\ clRet' = [clRet EXCEPT ![c] = "nil"]
            /\ UNCHANGED closed
       ELSE /\ closed' = TRUE
            /\ clPc' = [clPc EXCEPT ![c] = "stop"]
            /\ UNCHANGED <<muWriter, clRet>>
    /\ UNCHANGED <<inputData, outputData, chansOpen, muReaders, chStream,
                   chStops, cbPc, cbIn, output, outFresh, drPc, drLen, drRet,
                   drAtClose, dwPc, dwP, dwRet, nDevWrites, dSent, dPlayed>>
    /\ UNCHANGED <<playVars, capVars, ringVars, convVars>>

\* d.stream.Stop(): returns once the running callback has returned; on an
\* error Close returns it
CloseStop(c) ==
    /\ clPc[c] = "stop"
    /\ cbPc = "idle"
    /\ chStops' = chStops + 1
    /\ \E ok \in BOOLEAN :
        IF ok
        THEN /\ chStream' = "stopped"
             /\ clPc' = [clPc EXCEPT ![c] = "sclose"]
             /\ UNCHANGED <<muWriter, clRet>>
        ELSE /\ muWriter' = 0
             /\ clPc' = [clPc EXCEPT ![c] = "idle"]
             /\ clRet' = [clRet EXCEPT ![c] = "stopErr"]
             /\ UNCHANGED chStream
    /\ UNCHANGED <<inputData, outputData, chansOpen, closed, muReaders,
                   cbPc, cbIn, output, outFresh, drPc, drLen, drRet,
                   drAtClose, dwPc, dwP, dwRet, nDevWrites, dSent, dPlayed>>
    /\ UNCHANGED <<playVars, capVars, ringVars, convVars>>

\* d.stream.Close(); on an error Close returns it
CloseStream(c) ==
    /\ clPc[c] = "sclose"
    /\ \E ok \in BOOLEAN :
        IF ok
        THEN /\ chStream' = "closed"
             /\ clPc' = [clPc EXCEPT ![c] = "chans"]
             /\ UNCHANGED <<muWriter, clRet>>
        ELSE /\ muWriter' = 0
             /\ clPc' = [clPc EXCEPT ![c] = "idle"]
             /\ clRet' = [clRet EXCEPT ![c] = "closeErr"]
             /\ UNCHANGED chStream
    /\ UNCHANGED <<inputData, outputData, chansOpen, closed, muReaders,
                   chStops, cbPc, cbIn, output, outFresh, drPc, drLen, drRet,
                   drAtClose, dwPc, dwP, dwRet, nDevWrites, dSent, dPlayed>>
    /\ UNCHANGED <<playVars, capVars, ringVars, convVars>>

\* close(d.inputData); close(d.outputData); return nil
CloseChans(c) ==
    /\ clPc[c] = "chans"
    /\ IF chansOpen
       THEN /\ chansOpen' = FALSE
            /\ muWriter' = 0
            /\ clPc' = [clPc EXCEPT ![c] = "idle"]
            /\ clRet' = [clRet EXCEPT ![c] = "nil"]
       ELSE /\ clPc' = [clPc EXCEPT ![c] = "panic"]
            /\ UNCHANGED <<chansOpen, muWriter, clRet>>
    /\ UNCHANGED <<inputData, outputData, closed, muReaders, chStream,
                   chStops, cbPc, cbIn, output, outFresh, drPc, drLen, drRet,
                   drAtClose, dwPc, dwP, dwRet, nDevWrites, dSent, dPlayed>>
    /\ UNCHANGED <<playVars, capVars, ringVars, convVars>>

NextChan ==
    \/ CbCall
    \/ CbInput
    \/ CbOutput
    \/ DevReadCall
    \/ DevReadLock
    \/ DevReadRecv
    \/ DevReadTimeout
    \/ DevWriteCall
    \/ DevWriteLock
    \/ DevWriteBody
    \/ \E c \in Closers : CloseCall(c)
    \/ \E c \in Closers : CloseLock(c)
    \/ \E c \in Closers : CloseCheck(c)
    \/ \E c \in Closers : CloseStop(c)
    \/ \E c \in Closers : CloseStream(c)
    \/ \E c \in Closers : CloseChans(c)

SpecChan == Init /\ [][NextChan]_vars

\* ------------------------------------- PortAudioDevice, ring buffer
\* The ring buffers are github.com/smallnest/ringbuffer in blocking mode
\* (SetBlocking(true)): Write waits while the buffer is full until all of p
\* is written, Read waits while it is empty; after CloseWriter, Write fails
\* and Read returns io.EOF once the buffer is empty.

\* the driver invokes processAudio(input, output) while the stream runs:
\* the input is clamped and converted, micBuffer.Write is next
RingCbCall ==
    /\ rbStream = "started"
    /\ pcbPc = "idle"
    /\ \E in \in CbInputs :
        IF Len(in) > 0
        THEN pcbPc' = "micWrite" /\ pcbRest' = clampedFloatsToPCM16(in)
        ELSE pcbPc' = "out" /\ pcbRest' = <<>>
    /\ rbOutFresh' = [i \in 1..Period |-> FALSE]
    /\ UNCHANGED <<micBuffer, playbackBuffer, micClosed, playClosed,
                   rbStream, rbStops, rbCloses, outputPCM16Buf, rbOutput,
                   qrPc, qrLen, qrRet, qwPc, qwP, qwRest, qwRet, nRingWrites,
                   qcPc, qcRet, nCloses>>
    /\ UNCHANGED <<playVars, capVars, chanVars, convVars>>

\* d.micBuffer.Write(buf.Bytes()): writes what fits and waits for a reader
\* to make room for the rest; a closed writer returns an error, which is
\* logged
RingCbMicWrite ==
    /\ pcbPc = "micWrite"
    /\ IF micClosed
       THEN /\ pcbPc' = "out"
            /\ UNCHANGED <<micBuffer, pcbRest>>
       ELSE /\ Len(micBuffer) < RingCap
            /\ LET k == Min(RingCap - Len(micBuffer), Len(pcbRest))
               IN  /\ micBuffer' = micBuffer \o Take(pcbRest, k)
                   /\ pcbRest' = Drop(pcbRest, k)
                   /\ pcbPc' = IF k = Len(pcbRest) THEN "out" ELSE "micWrite"
    /\ UNCHANGED <<playbackBuffer, micClosed, playClosed, rbStream, rbStops,
                   rbCloses, outputPCM16Buf, rbOutput, rbOutFresh, qrPc,
                   qrLen, qrRet, qwPc, qwP, qwRest, qwRet, nRingWrites, qcPc,
                   qcRet, nCloses>>
    /\ UNCHANGED <<playVars, capVars, chanVars, convVars>>

\* the output half: read min(available, bytesNeeded) bytes into
\* outputPCM16Buf, zero the rest, decode every sample. The callback is the
\* only reader of playbackBuffer, so Length() and Read() are one step.
RingCbOutput ==
    /\ pcbPc = "out"
    /\ LET bytesNeeded == Period * 2
           n == Min(Len(playbackBuffer), bytesNeeded)
           buf == Take(playbackBuffer, n) \o Zeros(bytesNeeded - n)
       IN  /\ playbackBuffer' = Drop(playbackBuffer, n)
           /\ outputPCM16Buf' = buf
           /\ rbOutput' = [i \in 1..Period |->
                             DevPCM16ToFloat(LEInt16(buf, (i - 1) * 2))]
    /\ rbOutFresh' = [i \in 1..Period |-> TRUE]
    /\ pcbPc' = "idle"
    /\ UNCHANGED <<micBuffer, micClosed, playClosed, rbStream, rbStops,
                   rbCloses, pcbRest, qrPc, qrLen, qrRet, qwPc, qwP, qwRest,
                   qwRet, nRingWrites, qcPc, qcRet, nCloses>>
    /\ UNCHANGED <<playVars, capVars, chanVars, convVars>>

\* Read(p) is called
RingReadCall ==
    /\ qrPc = "idle"
    /\ qrPc' = "read"
    /\ \E n \in DevReadLens : qrLen' = n
    /\ UNCHANGED <<micBuffer, playbackBuffer, micClosed, playClosed,
                   rbStream, rbStops, rbCloses, pcbPc, pcbRest,
                   outputPCM16Buf, rbOutput, rbOutFresh, qrRet, qwPc, qwP,
                   qwRest, qwRet, nRingWrites, qcPc, qcRet, nCloses>>
    /\ UNCHANGED <<playVars, capVars, chanVars, convVars>>

\* return d.micBuffer.Read(p): waits while micBuffer is empty and open
RingRead ==
    /\ qrPc = "read"
    /\ IF micBuffer # <<>>
       THEN LET n == Min(qrLen, Len(micBuffer))
            IN  /\ micBuffer' = Drop(micBuffer, n)
                /\ qrRet' = [n |-> n, err |-> "nil"]
       ELSE /\ micClosed
            /\ qrRet' = [n |-> 0, err |-> "EOF"]
            /\ UNCHANGED micBuffer
    /\ qrPc' = "idle"
    /\ UNCHANGED <<playbackBuffer, micClosed, playClosed, rbStream, rbStops,
                   rbCloses, pcbPc, pcbRest, outputPCM16Buf, rbOutput,
                   rbOutFresh, qrLen, qwPc, qwP, qwRest, qwRet, nRingWrites,
                   qcPc, qcRet, nCloses>>
    /\ UNCHANGED <<playVars, capVars, chanVars, convVars>>

\* Write(p) is called
RingWriteCall ==
    /\ qwPc = "idle"
    /\ nRingWrites < MaxRingWrites
    /\ nRingWrites' = nRingWrites + 1
    /\ \E p \in DevInputs : qwP' = p /\ qwRest' = p
    /\ qwPc' = "write"
    /\ UNCHANGED <<micBuffer, playbackBuffer, micClosed, playClosed,
                   rbStream, rbStops, rbCloses, pcbPc, pcbRest,
                   outputPCM16Buf, rbOutput, rbOutFresh, qrPc, qrLen, qrRet,
                   qwRet, qcPc, qcRet, nCloses>>
    /\ UNCHANGED <<playVars, capVars, chanVars, convVars>>

\* return d.playbackBuffer.Write(p): writes what fits and waits for the
\* callback to make room for the rest; fails once the writer is closed
RingWrite ==
    /\ qwPc = "write"
    /\ IF playClosed
       THEN /\ qwRet' = [len |-> Len(qwP), n |-> Len(qwP) - Len(qwRest),
                         err |-> "ErrWriterClosed"]
            /\ qwPc' = "idle"
            /\ UNCHANGED <<playbackBuffer, qwRest>>
       ELSE /\ Len(playbackBuffer) < RingCap
            /\ LET k == Min(RingCap - Len(playbackBuffer), Len(qwRest))
               IN  /\ playbackBuffer' = playbackBuffer \o Take(qwRest, k)
                   /\ qwRest' = Drop(qwRest, k)
                   /\ IF k = Len(qwRest)
                      THEN /\ qwPc' = "idle"
                           /\ qwRet' = [len |-> Len(qwP), n |-> Len(qwP),
                                        err |-> "nil"]
                      ELSE UNCHANGED <<qwPc, qwRet>>
    /\ UNCHANGED <<micBuffer, micClosed, playClosed, rbStream, rbStops,
                   rbCloses, pcbPc, pcbRest, outputPCM16Buf, rbOutput,
                   rbOutFresh, qrPc, qrLen, qrRet, qwP, nRingWrites, qcPc,
                   qcRet, nCloses>>
    /\ UNCHANGED <<playVars, capVars, chanVars, convVars>>

\* Close() is called: nothing guards it, d.stream.Stop() is next
RingCloseCall(c) ==
    /\ qcPc[c] = "idle"
    /\ nCloses < MaxCloses
    /\ nCloses' = nCloses + 1
    /\ qcPc' = [qcPc EXCEPT ![c] = "stop"]
    /\ UNCHANGED <<micBuffer, playbackBuffer, micClosed, playClosed,
                   rbStream, rbStops, rbCloses, pcbPc, pcbRest,
                   outputPCM16Buf, rbOutput, rbOutFresh, qrPc, qrLen, qrRet,
                   qwPc, qwP, qwRest, qwRet, nRingWrites, qcRet>>
    /\ UNCHANGED <<playVars, capVars, chanVars, convVars>>

\* what d.stream.Stop() does: every call stops the stream again
RingStop ==
    /\ rbStops' = rbStops + 1
    /\ rbStream' = IF rbStream = "started" THEN "stopped" ELSE rbStream

\* _ = d.stream.Stop(): returns once the running callback has returned
RingCloseStop(c) ==
    /\ qcPc[c] = "stop"
    /\ pcbPc = "idle"
    /\ RingStop
    /\ qcPc' = [qcPc EXCEPT ![c] = "sclose"]
    /\ UNCHANGED <<micBuffer, playbackBuffer, micClosed, playClosed,
                   rbCloses, pcbPc, pcbRest, outputPCM16Buf, rbOutput,
                   rbOutFresh, qrPc, qrLen, qrRet, qwPc, qwP, qwRest, qwRet,
                   nRingWrites, qcRet, nCloses>>
    /\ UNCHANGED <<playVars, capVars, chanVars, convVars>>

\* _ = d.stream.Close()
RingCloseStream(c) ==
    /\ qcPc[c] = "sclose"
    /\ rbCloses' = rbCloses + 1
    /\ rbStream' = "closed"
    /\ qcPc' = [qcPc EXCEPT ![c] = "mic"]
    /\ UNCHANGED <<micBuffer, playbackBuffer, micClosed, playClosed, rbStops,
                   pcbPc, pcbRest, outputPCM16Buf, rbOutput, rbOutFresh,
                   qrPc, qrLen, qrRet, qwPc, qwP, qwRest, qwRet, nRingWrites,
                   qcRet, nCloses>>
    /\ UNCHANGED <<playVars, capVars, chanVars, convVars>>

\* d.micBuffer.CloseWriter()
RingCloseMic(c) ==
    /\ qcPc[c] = "mic"
    /\ micClosed' = TRUE
    /\ qcPc' = [qcPc EXCEPT ![c] = "play"]
    /\ UNCHANGED <<micBuffer, playbackBuffer, playClosed, rbStream, rbStops,
                   rbCloses, pcbPc, pcbRest, outputPCM16Buf, rbOutput,
                   rbOutFresh, qrPc, qrLen, qrRet, qwPc, qwP, qwRest, qwRet,
                   nRingWrites, qcRet, nCloses>>
    /\ UNCHANGED <<playVars, capVars, chanVars, convVars>>

\* d.playbackBuffer.CloseWriter(); return nil
RingClosePlay(c) ==
    /\ qcPc[c] = "play"
    /\ playClosed' = TRUE
    /\ qcPc' = [qcPc EXCEPT ![c] = "idle"]
    /\ qcRet' = [qcRet EXCEPT ![c] = "nil"]
    /\ UNCHANGED <<micBuffer, playbackBuffer, micClosed, rbStream, rbStops,
                   rbCloses, pcbPc, pcbRest, outputPCM16Buf, rbOutput,
                   rbOutFresh, qrPc, qrLen, qrRet, qwPc, qwP, qwRest, qwRet,
                   nRingWrites, nCloses>>
    /\ UNCHANGED <<playVars, capVars, chanVars, convVars>>

NextRing ==
    \/ RingCbCall
    \/ RingCbMicWrite
    \/ RingCbOutput
    \/ RingReadCall
    \/ RingRead
    \/ RingWriteCall
    \/ RingWrite
    \/ \E c \in Closers : RingCloseCall(c)
    \/ \E c \in Closers : RingCloseStop(c)
    \/ \E c \in Closers : RingCloseStream(c)
    \/ \E c \in Closers : RingCloseMic(c)
    \/ \E c \in Closers : RingClosePlay(c)

SpecRing == Init /\ [][NextRing]_vars

\* ------------------------------------------------- sample conversions

\* stereoSamplesToPCM16Mono on one frame whose left channel is f
MonoEncode ==
    /\ \E f \in ConvFloats :
        /\ cvFloat' = f
        /\ cvBytes' = stereoSamplesToPCM16Mono(<<Stereo(f)>>)
    /\ cvOp' = "MonoEncode"
    /\ cvOut' = <<0, 1>>
    /\ UNCHANGED <<playVars, capVars, chanVars, ringVars>>

\* the input conversion of processAudio, channel device, on one sample
ChanEncode ==
    /\ \E f \in ConvFloats :
        /\ cvFloat' = f
        /\ cvBytes' = floatsToPCM16(<<f>>)
    /\ cvOp' = "ChanEncode"
    /\ cvOut' = <<0, 1>>
    /\ UNCHANGED <<playVars, capVars, chanVars, ringVars>>

\* the input conversion of processAudio, ring-buffer device, on one sample
RingEncode ==
    /\ \E f \in ConvFloats :
        /\ cvFloat' = f
        /\ cvBytes' = clampedFloatsToPCM16(<<f>>)
    /\ cvOp' = "RingEncode"
    /\ cvOut' = <<0, 1>>
    /\ UNCHANGED <<playVars, capVars, chanVars, ringVars>>

\* the conversion of AudioIO.Write on one sample
WriteDecode ==
    /\ \E b \in ConvSamples :
        /\ cvBytes' = b
        /\ cvOut' = PCM16ToFloat(LEInt16(b, 0))
    /\ cvOp' = "WriteDecode"
    /\ cvFloat' = <<0, 1>>
    /\ UNCHANGED <<playVars, capVars, chanVars, ringVars>>

\* the output conversion of processAudio, channel device, on one sample
ChanDecode ==
    /\ \E b \in ConvSamples :
        /\ cvBytes' = b
        /\ cvOut' = DecodeChunk(b)[1]
    /\ cvOp' = "ChanDecode"
    /\ cvFloat' = <<0, 1>>
    /\ UNCHANGED <<playVars, capVars, chanVars, ringVars>>

\* the output conversion of processAudio, ring-buffer device, on one sample
RingDecode ==
    /\ \E b \in ConvSamples :
        /\ cvBytes' = b
        /\ cvOut' = DevPCM16ToFloat(LEInt16(b, 0))
    /\ cvOp' = "RingDecode"
    /\ cvFloat' = <<0, 1>>
    /\ UNCHANGED <<playVars, capVars, chanVars, ringVars>>

\* a sample goes through stereoSamplesToPCM16Mono and, as bytes, through
\* the conversion of AudioIO.Write
RoundTrip ==
    /\ \E f \in ConvFloats :
        LET b == stereoSamplesToPCM16Mono(<<Stereo(f)>>)
        IN  /\ cvFloat' = f
            /\ cvBytes' = b
            /\ cvOut' = PCM16ToFloat(LEInt16(b, 0))
    /\ cvOp' = "RoundTrip"
    /\ UNCHANGED <<playVars, capVars, chanVars, ringVars>>

NextConv ==
    \/ MonoEncode
    \/ ChanEncode
    \/ RingEncode
    \/ WriteDecode
    \/ ChanDecode
    \/ RingDecode
    \/ RoundTrip

SpecConv == Init /\ [][NextConv]_vars

\* ------------------------------------------------------------------ claims

\* C1: an even-length Write that returns len(b), nil has placed all its
\* samples in the playback buffer: a full buffer makes it wait, it drops
\* nothing.
C1_EvenWriteEnqueued ==
    (dwRet.err = "nil" /\ dwRet.len % 2 = 0)
        => (dwRet.n = dwRet.len /\ dwRet.enq)

\* C2: a Write of odd length returns 0 and an error.
C2_OddWriteRejected ==
    dwRet.len % 2 = 1 => (dwRet.n = 0 /\ dwRet.err \notin {"nil", "none"})

\* C3: with the device open, once the writer is idle and the playback path
\* has been drained by the callback, every sample of every chunk Write
\* enqueued has been handed to the hardware output, in order.
C3_AllWrittenPlayed ==
    (~closed /\ dwPc = "idle" /\ cbPc = "idle" /\ outputData = <<>>)
        => dPlayed = DecodeAll(dSent)

\* C4: playback is strictly FIFO: the frames Stream received from playCh
\* form a subsequence of the frames written, in write order, none twice,
\* under every interleaving of Write, Stream and ClearOutputBuffer.
C4_PlaybackFifo == IsSubseq(delivered, written)

\* a written frame was discarded by a flush between two delivered frames
C4_Witness ==
    /\ Len(delivered) >= 2
    /\ flushed # <<>>
    /\ delivered # Take(written, Len(delivered))

\* C5: when the playback callback of the open device returns, it has
\* assigned every element of the output buffer during that invocation.
C5_OutputFilled ==
    (~closed /\ cbPc = "idle") => \A i \in 1..Period : outFresh[i]

\* C6: the real-time callback never suspends: processAudio is never
\* waiting in micBuffer.Write for a reader to make room.
C6_CallbackNeverWaits ==
    ~(pcbPc = "micWrite" /\ ~micClosed /\ Len(micBuffer) = RingCap)

\* no Read is between its call and its return, except parked in Wait()
ReadersQuiet == \A r \in Readers : rPc[r] \in {"idle", "wait"}

\* C7: no lost wakeup on the capture side: once captureLoop has pushed and
\* no further push occurs, no Read stays parked in Wait() while the capture
\* buffer is non-empty.
C7_NoParkedReaderWithData ==
    (capPc = "done" /\ ReadersQuiet /\ readBuf # <<>>)
        => \A r \in Readers : rPc[r] # "wait"

\* C8: when the capture stream has stopped (captureLoop has returned), no
\* Read stays blocked on the empty capture buffer: it returns with an
\* end-of-stream indication.
C8_StoppedStreamEndsReads ==
    (capPc = "done" /\ ReadersQuiet /\ readBuf = <<>>)
        => \A r \in Readers : rPc[r] # "wait"

\* C9: a Read that was waiting when Close was called returns io.EOF, not a
\* successful transfer.
C9_ReadAtCloseSeesEOF ==
    drRet.atClose => drRet.err = "EOF"

\* C10: over any sequence of Close calls the hardware stream is stopped
\* once and closed once; later calls are no-ops.
C10_StreamReleasedOnce == rbStops <= 1 /\ rbCloses <= 1

\* C11 (as stated): the first Stream invocation called after Flush returned
\* receives no frame from playCh, whatever AudioIO.Write does meanwhile
C11_NextStreamSilent ==
    sFirst => sGot = 0

\* C11 (amended): no frame sent on playCh before Flush returned is
\* delivered after it returned: what Stream delivers from then on, in its
\* very next invocation too, are frames sent after the return, in order
C11_FlushedNeverDelivered ==
    IsSubseq(Drop(delivered, fMark.delivered), Drop(written, fMark.sent))

\* a Write pushed frames while Flush was discarding, Flush returned having
\* discarded more than playCh can hold at once, and the first Stream called
\* after it has delivered a frame sent after the return
C11_Witness ==
    /\ Len(flushed) > PlayCap
    /\ sFirst
    /\ sGot > 0
    /\ fMark.sent < Len(written)

\* C12: no buffer holds more than the capacity it was made with: a.readBuf
\* stays within its capacity while captureLoop produces, with or without a
\* Read, and a.playCh never holds more frames than its capacity
C12_WithinCapacity ==
    /\ Len(readBuf) <= ReadBufCap
    /\ Len(playCh) <= PlayCap

\* C13: AudioIO.Read never returns part of a sample: the count every Read
\* returned is a multiple of bytesPerSample and a.readBuf always holds a
\* whole number of samples, whatever len(p) is
C13_WholeSamples ==
    /\ \A r \in Readers : rRet[r].n % bytesPerSample = 0
    /\ Len(readBuf) % bytesPerSample = 0

\* C14: every PCM16-to-float conversion maps the int16 sample v to v/32768,
\* a value within [-1, 1], and the bytes <<0, 128>> to exactly -1
C14_DecodeBy32768 ==
    cvOp \in {"WriteDecode", "ChanDecode", "RingDecode"} =>
        /\ cvOut[1] * 32768 = LEInt16(cvBytes, 0) * cvOut[2]
        /\ -cvOut[2] <= cvOut[1]
        /\ cvOut[1] <= cvOut[2]
        /\ cvBytes = <<0, 128>> => cvOut[1] = -cvOut[2]

\* C15: every float-to-PCM16 conversion clamps before it scales: a sample
\* above 1 encodes as 32767, a sample below -1 as -32767
C15_EncodeClamps ==
    cvOp \in {"MonoEncode", "ChanEncode", "RingEncode"} =>
        /\ cvFloat[1] > cvFloat[2] => LEInt16(cvBytes, 0) = 32767
        /\ cvFloat[1] < -cvFloat[2] => LEInt16(cvBytes, 0) = -32767

\* C16 (as stated): a sample f in [-1, 1] encoded and decoded again is
\* within 1/32768 of f. With f = a/b and the result c/d, e is (f - c/d) b d
\* and step is b d / 32768, a whole number as d is 32768
C16_RoundTripOneStep ==
    (/\ cvOp = "RoundTrip"
     /\ -cvFloat[2] <= cvFloat[1]
     /\ cvFloat[1] <= cvFloat[2]) =>
        LET e == cvFloat[1] * cvOut[2] - cvOut[1] * cvFloat[2]
            step == (cvFloat[2] * cvOut[2]) \div 32768
        IN  e <= step /\ -e <= step

\* C16 (amended): a sample f in [-1, 1] encoded and decoded again is
\* within 2/32768 of f
C16_RoundTripTwoSteps ==
    (/\ cvOp = "RoundTrip"
     /\ -cvFloat[2] <= cvFloat[1]
     /\ cvFloat[1] <= cvFloat[2]) =>
        LET e == cvFloat[1] * cvOut[2] - cvOut[1] * cvFloat[2]
            step == (cvFloat[2] * cvOut[2]) \div 32768
        IN  e <= 2 * step /\ -e <= 2 * step

\* a sample in [-1, 1] went through the round trip and came back more than
\* 1/32768 below what it was
C16_Witness ==
    /\ cvOp = "RoundTrip"
    /\ -cvFloat[2] <= cvFloat[1]
    /\ cvFloat[1] <= cvFloat[2]
    /\ cvFloat[1] * cvOut[2] - cvOut[1] * cvFloat[2]
           > (cvFloat[2] * cvOut[2]) \div 32768

\* C17: every byte the capture side put in the buffer reaches a reader: a
\* Read of the channel-based device returns every byte it removed from
\* inputData, whatever len(p) is
C17_NoCapturedByteLost ==
    drRet.took <= drRet.n

\* C18: Close is safe against the operations in flight: processAudio never
\* sends on a closed channel, and d.closed is never about to be read by
\* one thread while another is about to write it with nothing ordering the
\* two. processAudio reads d.closed as its first step, holding no lock;
\* Close writes it in its check, holding d.mu
C18_CloseSynchronized ==
    /\ cbPc # "panic"
    /\ ~(/\ chStream = "started"
         /\ cbPc = "idle"
         /\ \E c \in Closers : clPc[c] = "check" /\ ~closed)

\* C19: a Read of the open channel-based device that returns without an
\* error returns at least one byte and only bytes that processAudio
\* produced, never bytes made up because time went by
C19_ReadReturnsOnlyCaptured ==
    drRet.err = "nil" => (drRet.n > 0 /\ drRet.n <= drRet.took)

\* C20: Close of the ring-buffer device is never stuck: it never waits in
\* d.stream.Stop() for a callback that itself waits in d.micBuffer.Write
\* for room in the full capture buffer while no Read is there to make it
C20_CloseNeverStuck ==
    ~(/\ \E c \in Closers : qcPc[c] = "stop"
      /\ pcbPc = "micWrite"
      /\ ~micClosed
      /\ Len(micBuffer) = RingCap
      /\ qrPc = "idle")

=============================================================================
